---- MODULE Spec2Model ----
(***************************************************************************)
(* Base58 and Base58Check conversion of nham/rust-base58 (src/lib.rs).     *)
(*                                                                         *)
(* Bytes and characters are integers 0..255; a string is the sequence of   *)
(* its bytes.  A BigUint is the sequence of its base-256 digits, most      *)
(* significant first, without leading zero digits; zero is <<>>.  All      *)
(* arithmetic on BigUint is exact, digit by digit, so no value of the      *)
(* model depends on the width of an integer.                               *)
(***************************************************************************)
EXTENDS Integers, Sequences, FiniteSets

\* ------------------------------------------------------------------ bounds
\* longest byte sequence a caller hands to to_base58 / to_base58_check
MaxLen == 2
\* longest string a caller hands to from_base58 / from_base58_check
MaxTextLen == 4

\* byte values the callers' byte sequences are drawn from
ByteSample == {0, 1, 9, 58, 128, 255}
\* characters the callers' strings are drawn from:
\* '1' '2' 'z' (alphabet, digits 0, 1, 57) and '0' 'l' (not in the alphabet)
CharSample == {49, 50, 122, 48, 108}

\* ------------------------------------------------------------- alphabets
BTC_ALPHA ==
  << 49, 50, 51, 52, 53, 54, 55, 56, 57,
     65, 66, 67, 68, 69, 70, 71, 72, 74, 75, 76, 77, 78, 80, 81, 82, 83, 84,
     85, 86, 87, 88, 89, 90,
     97, 98, 99, 100, 101, 102, 103, 104, 105, 106, 107, 109, 110, 111, 112,
     113, 114, 115, 116, 117, 118, 119, 120, 121, 122 >>

FLICKR_ALPHA ==
  << 49, 50, 51, 52, 53, 54, 55, 56, 57,
     97, 98, 99, 100, 101, 102, 103, 104, 105, 106, 107, 109, 110, 111, 112,
     113, 114, 115, 116, 117, 118, 119, 120, 121, 122,
     65, 66, 67, 68, 69, 70, 71, 72, 74, 75, 76, 77, 78, 80, 81, 82, 83, 84,
     85, 86, 87, 88, 89, 90 >>

\* ------------------------------------------------------ sequence helpers
Front(s) == SubSeq(s, 1, Len(s) - 1)

Last(s) == s[Len(s)]

RECURSIVE reverse(_)
reverse(s) == IF s = <<>> THEN <<>> ELSE reverse(Tail(s)) \o <<Head(s)>>

\* mutant of take_while_count: filter in place of take_while, every v counts
RECURSIVE count_every(_, _)
count_every(s, v) ==
  IF s = <<>> THEN 0
  ELSE (IF Head(s) = v THEN 1 ELSE 0) + count_every(Tail(s), v)

\* iter().take_while(|x| *x == v).count(): length of the run of v at the start
RECURSIVE take_while_count(_, _)
take_while_count(s, v) ==
  IF s = <<>> \/ Head(s) # v THEN 0 ELSE 1 + take_while_count(Tail(s), v)

\* vec![v; n]
repeat(v, n) == [i \in 1..n |-> v]

\* --------------------------------------------------------------- BigUint
Zero == <<>>

One == <<1>>

\* BigUint::from_bytes_be: the value of the big-endian digits
RECURSIVE from_bytes_be(_)
from_bytes_be(bytes) ==
  IF bytes = <<>> THEN Zero
  ELSE IF Head(bytes) = 0 THEN from_bytes_be(Tail(bytes))
  ELSE bytes

\* BigUint::to_bytes_be: minimal big-endian bytes; zero is the one byte 0
to_bytes_be(x) == IF x = Zero THEN <<0>> ELSE x

\* usize -> BigUint
RECURSIVE to_biguint(_)
to_biguint(n) ==
  IF n = 0 THEN Zero ELSE to_biguint(n \div 256) \o <<n % 256>>

\* BigUint -> usize, for the values that fit (digits and the radix)
RECURSIVE to_usize(_)
to_usize(x) ==
  IF x = Zero THEN 0 ELSE to_usize(Front(x)) * 256 + Last(x)

RECURSIVE add_carry(_, _, _)
add_carry(a, b, c) ==
  IF a = <<>> /\ b = <<>> THEN to_biguint(c)
  ELSE LET da == IF a = <<>> THEN 0 ELSE Last(a)
           db == IF b = <<>> THEN 0 ELSE Last(b)
           ra == IF a = <<>> THEN <<>> ELSE Front(a)
           rb == IF b = <<>> THEN <<>> ELSE Front(b)
           s  == da + db + c
       IN  add_carry(ra, rb, s \div 256) \o <<s % 256>>

\* a + b
biguint_add(a, b) == add_carry(a, b, 0)

RECURSIVE mul_digit_carry(_, _, _)
mul_digit_carry(a, m, c) ==
  IF a = <<>> THEN to_biguint(c)
  ELSE LET p == Last(a) * m + c
       IN  mul_digit_carry(Front(a), m, p \div 256) \o <<p % 256>>

\* a * m for one base-256 digit m
mul_digit(a, m) == IF m = 0 \/ a = Zero THEN Zero ELSE mul_digit_carry(a, m, 0)

\* a * b, schoolbook over the digits of b
RECURSIVE biguint_mul(_, _)
biguint_mul(a, b) ==
  IF b = Zero \/ a = Zero THEN Zero
  ELSE LET hi == biguint_mul(a, Front(b))
           sh == IF hi = Zero THEN Zero ELSE hi \o <<0>>
       IN  biguint_add(sh, mul_digit(a, Last(b)))

\* long division of x by the small divisor d: <<quotient digits, remainder>>
RECURSIVE divrem_small(_, _, _, _)
divrem_small(x, d, q, r) ==
  IF x = <<>> THEN <<from_bytes_be(q), r>>
  ELSE LET cur == r * 256 + Head(x)
       IN  divrem_small(Tail(x), d, q \o <<cur \div d>>, cur % d)

\* &x % &radix
biguint_rem(x, radix) == to_biguint(divrem_small(x, to_usize(radix), <<>>, 0)[2])

\* &x / &radix
biguint_div(x, radix) == divrem_small(x, to_usize(radix), <<>>, 0)[1]

\* ------------------------------------------------------------ the results
\* Result<Vec<u8>, FromBase58Error>
Ok(v) == [tag |-> "Ok", val |-> v]

InvalidBase58Byte(ch, idx) == [tag |-> "InvalidBase58Byte", byte |-> ch, idx |-> idx]

InvalidBase58Checksum(chk, expected) ==
  [tag |-> "InvalidBase58Checksum", found |-> chk, expected |-> expected]

NoBase58Checksum == [tag |-> "NoBase58Checksum"]

\* Option<usize>
Some(i) == <<i>>

None == <<>>

\* --------------------------------------------------------------- variables
VARIABLES
  payload,   \* the byte sequence of the caller
  text,      \* the string at hand: given by the caller, or the last encoding
  origin,    \* where text comes from: "caller", "to_base58", "to_base58_check"
  out,       \* the result of the last decoding
  last,      \* the last operation called
  digests,   \* the number of Sha256::digest calls the last operation made
  hashFn,    \* the hash function standing for Sha256::digest
  alpha      \* the alphabet the caller wants: "BTC" or "FLICKR"; the operations
             \* take no alphabet parameter, so none of them reads it

vars == <<payload, text, origin, out, last, digests, hashFn, alpha>>

\* ------------------------------------------------------ the hash function
\* Sha256::digest is an external collaborator: any function of the bytes.
\* It is one of these, fixed for a whole behaviour.
HashIds == {"zero", "sum", "fold"}

RECURSIVE SumBytes(_)
SumBytes(s) == IF s = <<>> THEN 0 ELSE (Head(s) + SumBytes(Tail(s))) % 256

RECURSIVE FoldBytes(_, _)
FoldBytes(s, acc) ==
  IF s = <<>> THEN acc ELSE FoldBytes(Tail(s), (acc * 31 + Head(s) + 7) % 256)

Digest(data) ==
  CASE hashFn = "zero" -> [i \in 1..32 |-> 0]
    [] hashFn = "sum"  -> [i \in 1..32 |-> (SumBytes(data) + Len(data) + i) % 256]
    [] hashFn = "fold" -> [i \in 1..4 |-> (FoldBytes(data, 5) * i + 1) % 256]

\* ---------------------------------------------------------------- encoding
radix == to_biguint(58)

\* while x > 0 { ans.push(BTC_ALPHA[x % 58]); x = x / 58 }
RECURSIVE to_base58_loop(_, _)
to_base58_loop(x, ans) ==
  IF x # Zero
  THEN LET rem == to_usize(biguint_rem(x, radix))
       IN  to_base58_loop(biguint_div(x, radix), Append(ans, BTC_ALPHA[rem + 1]))
  ELSE ans

\* mutant of to_base58: the leading zero bytes are not written
to_base58_no_zeros(self) ==
  LET x   == from_bytes_be(self)
      ans == to_base58_loop(x, <<>>)
  IN  reverse(ans)

to_base58(self) ==
  LET x     == from_bytes_be(self)
      ans   == to_base58_loop(x, <<>>)
      zeros == take_while_count(self, 0)
  IN  reverse(ans \o repeat(BTC_ALPHA[1], zeros))

\* mutant of to_base58_check: the checksum is the end of the digest
to_base58_check_tail(self) ==
  LET first_hash  == Digest(self)
      second_hash == Digest(first_hash)
      with_check  == self \o SubSeq(second_hash, Len(second_hash) - 3, Len(second_hash))
  IN  to_base58(with_check)

to_base58_check(self) ==
  LET first_hash  == Digest(self)
      second_hash == Digest(first_hash)
      with_check  == self \o SubSeq(second_hash, 1, 4)
  IN  to_base58(with_check)

\* ---------------------------------------------------------------- decoding
\* BTC_ALPHA.iter().enumerate().find(|x| *x.1 == byte).map(|x| x.0)
first_idx(byte) ==
  LET hits == {i \in 1..Len(BTC_ALPHA) : BTC_ALPHA[i] = byte}
  IN  IF hits = {} THEN None
      ELSE Some((CHOOSE i \in hits : \A j \in hits : i <= j) - 1)

\* mutant of from_base58_loop: rev().enumerate(), the index counts the scan
RECURSIVE from_base58_loop_scan_index(_, _, _, _)
from_base58_loop_scan_index(self, pos, x, rad_mult) ==
  IF pos = 0 THEN [tag |-> "x", x |-> x]
  ELSE LET fi == first_idx(self[pos])
       IN  IF fi = None
           THEN InvalidBase58Byte(self[pos], Len(self) - pos)
           ELSE from_base58_loop_scan_index(self, pos - 1,
                  biguint_add(x, biguint_mul(to_biguint(fi[1]), rad_mult)),
                  biguint_mul(rad_mult, radix))

\* for (idx, &byte) in self.iter().enumerate().rev(): pos is idx + 1
RECURSIVE from_base58_loop(_, _, _, _)
from_base58_loop(self, pos, x, rad_mult) ==
  IF pos = 0 THEN [tag |-> "x", x |-> x]
  ELSE LET fi == first_idx(self[pos])
       IN  IF fi = None
           THEN InvalidBase58Byte(self[pos], pos - 1)
           ELSE from_base58_loop(self, pos - 1,
                  biguint_add(x, biguint_mul(to_biguint(fi[1]), rad_mult)),
                  biguint_mul(rad_mult, radix))

\* mutant of from_base58: every '1' of the text gives a zero byte
from_base58_every_one(self) ==
  LET scan == from_base58_loop(self, Len(self), Zero, One)
  IN  IF scan.tag # "x" THEN scan
      ELSE LET r == repeat(0, count_every(self, BTC_ALPHA[1]))
           IN  IF scan.x # Zero THEN Ok(r \o to_bytes_be(scan.x)) ELSE Ok(r)

\* mutant of from_base58: the bytes of x are appended also when x is zero
from_base58_no_zero_test(self) ==
  LET scan == from_base58_loop(self, Len(self), Zero, One)
  IN  IF scan.tag # "x" THEN scan
      ELSE LET r == repeat(0, take_while_count(self, BTC_ALPHA[1]))
           IN  Ok(r \o to_bytes_be(scan.x))

from_base58(self) ==
  LET scan == from_base58_loop(self, Len(self), Zero, One)
  IN  IF scan.tag # "x" THEN scan
      ELSE LET r == repeat(0, take_while_count(self, BTC_ALPHA[1]))
           IN  IF scan.x # Zero THEN Ok(r \o to_bytes_be(scan.x)) ELSE Ok(r)

\* mutant of from_base58_check: the error carries expected first, found second
from_base58_check_swapped(self) ==
  LET dec == from_base58(self)
  IN  IF dec.tag # "Ok" THEN [res |-> dec, digests |-> 0]
      ELSE LET decoded == dec.val
               length  == Len(decoded)
           IN  IF length < 4 THEN [res |-> NoBase58Checksum, digests |-> 0]
               ELSE LET content       == SubSeq(decoded, 1, length - 4)
                        check         == SubSeq(decoded, length - 3, length)
                        expected_hash == SubSeq(Digest(Digest(content)), 1, 4)
                    IN  IF check # expected_hash
                        THEN [res |-> InvalidBase58Checksum(expected_hash, check),
                              digests |-> 2]
                        ELSE [res |-> Ok(content), digests |-> 2]

\* mutant of from_base58_check: no test of the length, split_at(length - 4)
\* panics on fewer than 4 bytes
from_base58_check_no_length_test(self) ==
  LET dec == from_base58(self)
  IN  IF dec.tag # "Ok" THEN [res |-> dec, digests |-> 0]
      ELSE LET decoded == dec.val
               length  == Len(decoded)
           IN  IF length < 4 THEN [res |-> [tag |-> "panic"], digests |-> 0]
               ELSE LET content       == SubSeq(decoded, 1, length - 4)
                        check         == SubSeq(decoded, length - 3, length)
                        expected_hash == SubSeq(Digest(Digest(content)), 1, 4)
                    IN  IF check # expected_hash
                        THEN [res |-> InvalidBase58Checksum(check, expected_hash),
                              digests |-> 2]
                        ELSE [res |-> Ok(content), digests |-> 2]

\* mutant of from_base58_check: a failed decoding counts as no bytes decoded
from_base58_check_error_dropped(self) ==
  LET dec     == from_base58(self)
      decoded == IF dec.tag = "Ok" THEN dec.val ELSE <<>>
      length  == Len(decoded)
  IN  IF length < 4 THEN [res |-> NoBase58Checksum, digests |-> 0]
      ELSE LET content       == SubSeq(decoded, 1, length - 4)
               check         == SubSeq(decoded, length - 3, length)
               expected_hash == SubSeq(Digest(Digest(content)), 1, 4)
           IN  IF check # expected_hash
               THEN [res |-> InvalidBase58Checksum(check, expected_hash),
                     digests |-> 2]
               ELSE [res |-> Ok(content), digests |-> 2]

\* the result, and the number of Sha256::digest calls made on the way
from_base58_check(self) ==
  LET dec == from_base58(self)
  IN  IF dec.tag # "Ok" THEN [res |-> dec, digests |-> 0]
      ELSE LET decoded == dec.val
               length  == Len(decoded)
           IN  IF length < 4 THEN [res |-> NoBase58Checksum, digests |-> 0]
               ELSE LET content       == SubSeq(decoded, 1, length - 4)
                        check         == SubSeq(decoded, length - 3, length)
                        first_hash    == Digest(content)
                        second_hash   == Digest(first_hash)
                        expected_hash == SubSeq(second_hash, 1, 4)
                    IN  IF check # expected_hash
                        THEN [res |-> InvalidBase58Checksum(check, expected_hash),
                              digests |-> 2]
                        ELSE [res |-> Ok(content), digests |-> 2]

\* ------------------------------------------------------------ the machine
RECURSIVE SeqsUpTo(_, _)
SeqsUpTo(S, n) ==
  IF n = 0 THEN {<<>>}
  ELSE LET shorter == SeqsUpTo(S, n - 1)
       IN  shorter \cup {Append(s, e) : s \in shorter, e \in S}

NoResult == [tag |-> "None"]

Init ==
  /\ hashFn \in HashIds
  /\ alpha \in {"BTC", "FLICKR"}
  /\ \/ payload \in SeqsUpTo(ByteSample, MaxLen) /\ text = <<>>
     \/ payload = <<>> /\ text \in SeqsUpTo(CharSample, MaxTextLen)
  /\ origin = "caller"
  /\ out = NoResult
  /\ last = "none"
  /\ digests = 0

ToBase58 ==
  /\ text' = to_base58(payload)
  /\ origin' = "to_base58"
  /\ last' = "to_base58"
  /\ out' = NoResult
  /\ digests' = 0
  /\ UNCHANGED <<payload, hashFn, alpha>>

ToBase58Check ==
  /\ text' = to_base58_check(payload)
  /\ origin' = "to_base58_check"
  /\ last' = "to_base58_check"
  /\ out' = NoResult
  /\ digests' = 2
  /\ UNCHANGED <<payload, hashFn, alpha>>

FromBase58 ==
  /\ out' = from_base58(text)
  /\ last' = "from_base58"
  /\ digests' = 0
  /\ UNCHANGED <<payload, text, origin, hashFn, alpha>>

FromBase58Check ==
  /\ LET run == from_base58_check(text)
     IN  out' = run.res /\ digests' = run.digests
  /\ last' = "from_base58_check"
  /\ UNCHANGED <<payload, text, origin, hashFn, alpha>>

Next == ToBase58 \/ ToBase58Check \/ FromBase58 \/ FromBase58Check

Spec == Init /\ [][Next]_vars

\* ------------------------------------------------- vocabulary of the claims
\* the bytes that are symbols of the alphabet
AlphabetSet == {BTC_ALPHA[i] : i \in 1..Len(BTC_ALPHA)}

ValidText(t) == \A i \in 1..Len(t) : t[i] \in AlphabetSet

\* the digit value of a symbol of the alphabet
DigitOf(c) == CHOOSE d \in 0..57 : BTC_ALPHA[d + 1] = c

\* the length of the longest prefix of s made of v only
PrefixRun(s, v) ==
  CHOOSE k \in 0..Len(s) :
    /\ \A i \in 1..k : s[i] = v
    /\ k = Len(s) \/ s[k + 1] # v

Max(S) == CHOOSE m \in S : \A n \in S : n <= m

\* the value of the digits ds (most significant first) in base b, modulo p
RECURSIVE ValMod(_, _, _, _)
ValMod(ds, b, p, acc) ==
  IF ds = <<>> THEN acc ELSE ValMod(Tail(ds), b, p, (acc * b + Head(ds)) % p)

\* four primes below 2^15; their product exceeds 2^59, hence 256^7 and 58^10:
\* two values below that bound with the same residues are equal
Moduli == {32749, 32719, 32717, 32713}

\* ------------------------------------------------------------------ claims
\* C1: round trip of plain Base58: decoding with from_base58 the string that
\* to_base58 made of the byte sequence b succeeds and returns exactly b, for
\* every b, empty, with leading zero bytes or all zero.
C1_RoundTrip ==
  (last = "from_base58" /\ origin = "to_base58") => out = Ok(payload)

C1_Witness ==
  /\ last = "from_base58" /\ origin = "to_base58"
  /\ Len(payload) = 2 /\ payload[1] = 0 /\ payload[2] # 0
  /\ out = Ok(payload)

\* C2: round trip of Base58Check: decoding with from_base58_check the string
\* that to_base58_check made of the payload b succeeds and returns exactly b,
\* for every b and every hash function.
C2_RoundTripCheck ==
  (last = "from_base58_check" /\ origin = "to_base58_check") => out = Ok(payload)

C2_Witness ==
  /\ last = "from_base58_check" /\ origin = "to_base58_check"
  /\ payload = <<>> /\ hashFn = "sum"
  /\ out = Ok(<<>>) /\ digests = 2

\* C3: leading zeros in to_base58: a payload of k zero bytes followed by r,
\* where r is empty or starts with a non-zero byte, encodes to k times '1'
\* followed by the encoding of r, which is empty when r is empty and otherwise
\* does not start with '1'; the text starts with exactly k '1'.
C3_LeadingZeros ==
  last = "to_base58" =>
    LET k  == PrefixRun(payload, 0)
        r  == SubSeq(payload, k + 1, Len(payload))
        er == to_base58(r)
    IN  /\ text = [i \in 1..k |-> BTC_ALPHA[1]] \o er
        /\ (r = <<>>) => (er = <<>> /\ Len(text) = k)
        /\ (r # <<>>) => (er # <<>> /\ er[1] # BTC_ALPHA[1])
        /\ PrefixRun(text, BTC_ALPHA[1]) = k

C3_Witness ==
  /\ last = "to_base58"
  /\ Len(payload) = 2 /\ payload[1] = 0 /\ payload[2] # 0
  /\ Len(text) > 1 /\ text[1] = BTC_ALPHA[1] /\ text[2] # BTC_ALPHA[1]

\* C4: from_base58 fails exactly when the text holds a byte outside the
\* alphabet; the error is then InvalidBase58Byte(byte, index) of the rightmost
\* such byte, index counted from the left from 0, and nothing else is returned.
C4_InvalidCharacter ==
  last = "from_base58" =>
    LET bad == {i \in 1..Len(text) : text[i] \notin AlphabetSet}
    IN  /\ (out.tag # "Ok") <=> (bad # {})
        /\ (bad # {}) =>
             /\ out = InvalidBase58Byte(text[Max(bad)], Max(bad) - 1)
             /\ DOMAIN out = {"tag", "byte", "idx"}
             /\ text[out.idx + 1] = out.byte

C4_Witness ==
  /\ last = "from_base58"
  /\ Len(text) = 4
  /\ text[1] \notin AlphabetSet /\ text[3] \notin AlphabetSet
  /\ text[1] # text[3] /\ text[4] \in AlphabetSet
  /\ out = InvalidBase58Byte(text[3], 2)

\* C5: from_base58_check on a text that decodes to at least 4 bytes, content
\* being all but the last 4 and check the last 4: the result is Ok(content)
\* exactly when check is the first 4 bytes of Digest(Digest(content)), and
\* otherwise InvalidBase58Checksum(check, expected), found first.
C5_ChecksumVerified ==
  (last = "from_base58_check" /\ from_base58(text).tag = "Ok"
     /\ Len(from_base58(text).val) >= 4) =>
    LET decoded  == from_base58(text).val
        content  == SubSeq(decoded, 1, Len(decoded) - 4)
        check    == SubSeq(decoded, Len(decoded) - 3, Len(decoded))
        expected == SubSeq(Digest(Digest(content)), 1, 4)
    IN  /\ (out = Ok(content)) <=> (check = expected)
        /\ (check # expected) => out = InvalidBase58Checksum(check, expected)

C5_Witness ==
  /\ last = "from_base58_check" /\ origin = "caller"
  /\ out.tag = "InvalidBase58Checksum"
  /\ out.found # out.expected
  /\ Len(out.found) = 4 /\ Len(out.expected) = 4

\* C6: from_base58_check on a text of alphabet characters that decodes to
\* fewer than 4 bytes, the empty text included, fails with NoBase58Checksum:
\* no mismatch, no payload, and the split at length - 4 is not attempted.
C6_ChecksumMissing ==
  (last = "from_base58_check" /\ ValidText(text)
     /\ Len(from_base58(text).val) < 4) =>
    /\ out = NoBase58Checksum
    /\ digests = 0

C6_Witness ==
  /\ last = "from_base58_check"
  /\ Len(text) = 3 /\ ValidText(text) /\ text[1] # BTC_ALPHA[1]
  /\ out = NoBase58Checksum

\* C7: when from_base58 fails on a text, from_base58_check fails on it with
\* the very same InvalidBase58Byte(byte, index), also when the text is too
\* short to hold a checksum, and computes no hash.
C7_ErrorPropagated ==
  (last = "from_base58_check" /\ from_base58(text).tag # "Ok") =>
    /\ out = from_base58(text)
    /\ out.tag = "InvalidBase58Byte"
    /\ digests = 0

C7_Witness ==
  /\ last = "from_base58_check"
  /\ Len(text) = 2 /\ text[1] \in AlphabetSet /\ text[2] \notin AlphabetSet
  /\ out = InvalidBase58Byte(text[2], 1)
  /\ digests = 0

\* C9: from_base58 on a text of alphabet characters, X being the base-58
\* value of its digits and k the length of its leading run of '1': the result
\* is k zero bytes followed by the minimal big-endian bytes of X, and by
\* nothing when X = 0; a '1' after the leading run adds no zero byte.
C9_DecodeValue ==
  (last = "from_base58" /\ ValidText(text)) =>
    /\ out.tag = "Ok"
    /\ LET k  == PrefixRun(text, BTC_ALPHA[1])
           r  == out.val
           m  == SubSeq(r, k + 1, Len(r))
           ds == [i \in 1..Len(text) |-> DigitOf(text[i])]
       IN  /\ Len(r) >= k
           /\ \A i \in 1..k : r[i] = 0
           /\ m = <<>> \/ m[1] # 0
           /\ \A i \in 1..Len(m) : m[i] \in 0..255
           /\ \A p \in Moduli : ValMod(m, 256, p, 0) = ValMod(ds, 58, p, 0)
           /\ (\A i \in 1..Len(text) : text[i] = BTC_ALPHA[1]) => r = [i \in 1..Len(text) |-> 0]

C9_Witness ==
  /\ last = "from_base58" /\ origin = "caller"
  /\ Len(text) = 4
  /\ text[1] = BTC_ALPHA[1] /\ text[2] # BTC_ALPHA[1] /\ text[3] = BTC_ALPHA[1]
  /\ ValidText(text)
  /\ out.tag = "Ok" /\ Len(out.val) = 3 /\ out.val[1] = 0 /\ out.val[2] # 0

\* C10: for every text of alphabet characters, also one to_base58 never
\* makes, encoding what from_base58 returns gives the text back; so
\* from_base58 is injective on these texts.
C10_Canonical ==
  (last = "from_base58" /\ ValidText(text)) =>
    /\ out.tag = "Ok"
    /\ to_base58(out.val) = text

C10_Witness ==
  /\ last = "from_base58" /\ origin = "caller"
  /\ Len(text) = 4 /\ ValidText(text)
  /\ text[1] # BTC_ALPHA[1] /\ text[2] = BTC_ALPHA[1] /\ text[4] = BTC_ALPHA[1]
  /\ out.tag = "Ok" /\ to_base58(out.val) = text

\* C8: the operations use the alphabet the caller selects; with the Flickr
\* alphabet selected, the digit d is written and read as the d-th symbol of
\* FLICKR_ALPHA (9 is 'a', 34 is 'A').
C8_AlphabetSelected ==
  alpha = "FLICKR" =>
    /\ (last = "to_base58" /\ Len(payload) = 1 /\ payload[1] \in 1..57) =>
         text = <<FLICKR_ALPHA[payload[1] + 1]>>
    /\ (last = "from_base58" /\ Len(text) = 1
          /\ \E d \in 1..57 : FLICKR_ALPHA[d + 1] = text[1]) =>
         out = Ok(<<CHOOSE d \in 1..57 : FLICKR_ALPHA[d + 1] = text[1]>>)

====
